---- MODULE Spec2Model ----
(***************************************************************************)
(* Staged-upload and publish pipeline of streamhaven-be:                   *)
(*   - the append-stream chunk handler  POST /api/staging/upload-chunk     *)
(*   - the staging ledger helpers       helper/stagingVideo.helper.js      *)
(*   - the run state singleton          helper/stagingProcessState.helper  *)
(*   - the drain handler                POST /api/staging/process          *)
(*                                                                         *)
(* One action is the code a handler runs between two awaits: the awaited   *)
(* operation takes effect and the continuation runs up to the next await.  *)
(* Every awaited call against the document store, the blob store, the     *)
(* temp directory or the video host either returns or throws.             *)
(***************************************************************************)
EXTENDS Integers, Sequences, FiniteSets, TLC

\* ------------------------------------------------------------------ bounds
MaxChunks == 4     \* largest totalChunks a client declares
MaxUploads == 2      \* files taken in (chunk sessions opened, whole-file uploads)
MaxRuns == 2         \* drain runs started
MaxWork == 3         \* files taken in plus drain runs started

\* ------------------------------------------------------- program constants
BatchLimit == 100                                  \* .limit(100)
MAX_SIZE_BYTES == 15                               \* 15GB; sizes count in GB units
ALLOWED_TYPES == {"video/mp4", "video/webm", "video/x-matroska"}
ProcessableAndWriting ==
    {"writing", "pending", "storage_fail", "daily_fail", "max_upload_fail", "error"}
PROCESSABLE_STATUSES ==
    {"pending", "storage_fail", "daily_fail", "max_upload_fail", "error"}

null   == "null"     \* a null string field
nullId == 0          \* a null number / id field

\* ------------------------------------------------------------ input domains
\* uploadId strings as character sequences: "a", "b", "a."
UploadIds == {<<"a">>, <<"b">>, <<"a", ".">>}
SafeChars == {"a", "b", "-", "_"}                  \* members of [a-zA-Z0-9-_]
Procs     == {"p1", "p2"}                          \* concurrent POST /process requests
Chunkers  == {"c1", "c2"}                          \* chunk-directory requests in flight
Creators  == {"s1", "s2"}                          \* calls of the create helpers in flight
Listers   == {"l1"}                                \* GET / requests
Purgers   == {"g1"}                                \* GET /purge-all-uploads requests
FinSlots  == {"f1"}                                \* last-chunk requests in flight

\* The multipart file part and body fields the client sends with an upload.
ReqFile(u) ==
    IF u = <<"a">> THEN
        [originalname |-> <<"a", ".mp4">>, mimetype |-> "video/mp4",
         tmdbId |-> 11, title |-> "A", poster_path |-> "/a.jpg"]
    ELSE IF u = <<"b">> THEN
        [originalname |-> <<"b", ".mkv">>, mimetype |-> "application/octet-stream",
         tmdbId |-> nullId, title |-> "", poster_path |-> null]
    ELSE
        [originalname |-> <<"c", ".webm">>, mimetype |-> "video/webm",
         tmdbId |-> 12, title |-> "C", poster_path |-> null]

\* Bytes of chunk i of upload u: every chunk is 2 bytes long, the last 1 byte.
ChunkLen(i, n) == IF i = n - 1 THEN 1 ELSE 2
ChunkData(u, i, n) == [k \in 1..ChunkLen(i, n) |-> <<u, i>>]

RECURSIVE Concat(_, _, _, _)
\* chunks from..n-1 of upload u in index order
Concat(u, from, n, total) ==
    IF from >= n THEN <<>>
    ELSE ChunkData(u, from, total) \o Concat(u, from + 1, n, total)
InOrderBytes(u, n) == Concat(u, 0, n, n)

\* ------------------------------------------------------------------- state
VARIABLES
    staging,        \* StagingVideo collection: _id -> row
    gridfs,         \* stagingVideos bucket: file _id -> bytes
    nextId,         \* next ObjectId
    uploads,        \* files taken in so far (the clock of the temp file names)
    uploadedVideos, \* UploadedVideo collection, in creation order
    tmpdir,         \* os.tmpdir(): file name -> bytes
    abyss,          \* videos accepted by the host, in upload order (slug = index)
    state,          \* RunState singleton
    uploadState,    \* UploadState singleton
    uploadStreams,  \* Map key -> { filePath, meta, totalChunks, receivedChunks }
    fin,            \* last-chunk requests suspended at an await: slot -> locals
    proc,           \* POST /process and purge requests: request -> locals, last response
    declared,       \* totalChunks the client declares for each uploadId
    requested,      \* history: chunk indexes each uploadId has been sent
    received,       \* history: chunk indexes the handler has appended, per uploadId
    ordered         \* history: the requests of an uploadId so far were 0,1,2,.. once each

ledgerVars == <<staging, gridfs, nextId, uploads, uploadedVideos, tmpdir, abyss>>
uploadVars == <<uploadState, uploadStreams, fin, declared, requested, received, ordered>>
drainVars  == <<state, proc>>
vars == <<staging, gridfs, nextId, uploads, uploadedVideos, tmpdir, abyss, state, uploadState,
          uploadStreams, fin, proc, declared, requested, received, ordered>>

\* ----------------------------------------------------------------- helpers
Has(f, k) == k \in DOMAIN f
Put(f, k, v) == [x \in (DOMAIN f) \cup {k} |-> IF x = k THEN v ELSE f[x]]
Drop(f, k) == [x \in (DOMAIN f) \ {k} |-> f[x]]
EmptyMap == [x \in {} |-> 0]

\* Math.round((a / b) * 100) for a, b >= 0, b > 0
RoundPercent(a, b) == (200 * a + b) \div (2 * b)

\* String(id).replace(/[^a-zA-Z0-9-_]/g, '') || 'unknown'
safeUploadId(id) ==
    LET s == SelectSeq(id, LAMBDA c : c \in SafeChars)
    IN IF s = <<>> THEN <<"u", "n", "k", "n", "o", "w", "n">> ELSE s

\* path.extname(name) || '.mp4'
ExtOrMp4(name) == IF name[2] = "" THEN ".mp4" ELSE name[2]

\* { '.mp4': 'video/mp4', '.webm': 'video/webm', '.mkv': 'video/x-matroska' }[e] || 'video/mp4'
MimeOfExt(e) ==
    IF e = ".webm" THEN "video/webm"
    ELSE IF e = ".mkv" THEN "video/x-matroska"
    ELSE "video/mp4"

\* meta built from the chunk-0 request
ChunkMeta(u) ==
    LET f == ReqFile(u) IN
    [filename |-> f.originalname,
     mimetype |-> IF f.mimetype = "application/octet-stream"
                  THEN MimeOfExt(f.originalname[2]) ELSE f.mimetype,
     tmdbId |-> f.tmdbId, title |-> f.title, poster_path |-> f.poster_path]

\* Names of temp files: <<prefix, id, t>>, t standing for Date.now().
NoPath == <<>>

\* ------------------------------------------------- stagingProcessState.helper
InitUploadState ==
    [active |-> FALSE, uploadId |-> <<>>, status |-> null, startedAt |-> FALSE,
     fileName |-> <<>>, totalChunks |-> 0, currentChunk |-> 0,
     uploadProgress |-> -1, dbProgress |-> -1, error |-> null, stagingId |-> nullId]

\* clearUploadState()
clearUploadState == InitUploadState

\* setUploadState(partial): partial is a function from the given field names to values
setUploadState(us, partial) ==
    LET m == [k \in DOMAIN us |-> IF k \in DOMAIN partial THEN partial[k] ELSE us[k]]
        st == IF "status" \in DOMAIN partial THEN partial["status"] ELSE null
        a == IF st \in {"uploading", "writing"} THEN [m EXCEPT !.active = TRUE, !.startedAt = TRUE]
             ELSE m
    IN IF st \in {"done", "error"} THEN [a EXCEPT !.active = FALSE] ELSE a

InitRunState ==
    [isProcessing |-> FALSE, startedAt |-> 0, total |-> 0, processed |-> 0,
     failed |-> 0, currentStagingId |-> nullId, items |-> <<>>]

\* --------------------------------------------------- stagingVideo.helper.js
\* The two checks createStagingVideoWithProgress makes before touching the store.
CreateRejects(mimetype, size) ==
    mimetype \notin ALLOWED_TYPES \/ size > MAX_SIZE_BYTES

\* The row StagingVideoModel.create receives from createStagingVideoWithProgress.
NewPendingRow(gridFsFileId, meta, size) ==
    [gridFsFileId |-> gridFsFileId, filename |-> meta.filename, size |-> size,
     contentType |-> meta.mimetype, tmdbId |-> meta.tmdbId,
     poster_path |-> meta.poster_path, title |-> meta.title,
     status |-> "pending", errorMessage |-> null, abyssSlug |-> nullId]

\* ----------------------------------------- POST /upload-chunk (append-stream)
\* The branch the handler takes for chunk i of upload u in the current state.
ChunkBranch(u, i) ==
    LET key == safeUploadId(u)
        n == declared[u]
    IN IF n < 1 \/ i < 0 \/ i >= n THEN "invalid"
       ELSE IF i = 0 THEN
            IF Has(uploadStreams, key) /\ 0 \in uploadStreams[key].receivedChunks
            THEN "idempotent" ELSE "create"
       ELSE IF ~Has(uploadStreams, key) THEN "noSession"
       ELSE IF i \in uploadStreams[key].receivedChunks THEN "idempotent"
       ELSE IF i # n - 1 THEN "append"
       ELSE "last"

\* The status code of the response of each branch ("last" answers when it finishes).
BranchCode(b) ==
    IF b \in {"invalid", "noSession"} THEN 400
    ELSE IF b = "last" THEN 201
    ELSE 200

\* history of the requests an uploadId has been sent
NoteRequest(u, i) ==
    /\ requested' = [requested EXCEPT ![u] = @ \cup {i}]
    /\ ordered' = [ordered EXCEPT ![u] = @ /\ i = Cardinality(requested[u])]
NoteReceived(u, i) == received' = [received EXCEPT ![u] = @ \cup {i}]

\* writeStream.write(buffer): the bytes follow what the handle has written so far
AppendBytes(dir, path, bytes) ==
    IF Has(dir, path) THEN Put(dir, path, dir[path] \o bytes) ELSE dir

\* 400: bad chunkIndex / totalChunks
ChunkInvalid(u, i) ==
    /\ ChunkBranch(u, i) = "invalid"
    /\ UNCHANGED vars

\* 200: chunk already received, nothing written
ChunkIdempotent(u, i) ==
    /\ ChunkBranch(u, i) = "idempotent"
    /\ NoteRequest(u, i)
    /\ UNCHANGED <<ledgerVars, drainVars, uploadState, uploadStreams, fin, declared, received>>

\* 400: 'Send chunk 0 first.'
ChunkNoSession(u, i) ==
    /\ ChunkBranch(u, i) = "noSession"
    /\ NoteRequest(u, i)
    /\ UNCHANGED <<ledgerVars, drainVars, uploadState, uploadStreams, fin, declared, received>>

\* chunk 0 with no session: open the temp file, write the chunk, register the session
ChunkCreate(u) ==
    /\ ChunkBranch(u, 0) = "create"
    /\ uploads < MaxUploads
    /\ uploads' = uploads + 1
    /\ LET key == safeUploadId(u)
           meta == ChunkMeta(u)
           filePath == <<"staging-append", u, uploads + 1>>
           entry == [filePath |-> filePath, meta |-> meta, totalChunks |-> declared[u],
                     receivedChunks |-> {0}]
       IN /\ tmpdir' = Put(tmpdir, filePath, ChunkData(u, 0, declared[u]))
          /\ uploadStreams' = Put(uploadStreams, key, entry)
          /\ uploadState' = setUploadState(clearUploadState,
                 [uploadId |-> u, status |-> "uploading", fileName |-> meta.filename,
                  totalChunks |-> declared[u], currentChunk |-> 1,
                  uploadProgress |-> RoundPercent(1, declared[u])])
    /\ NoteRequest(u, 0)
    /\ NoteReceived(u, 0)
    /\ UNCHANGED <<staging, gridfs, nextId, uploadedVideos, abyss, drainVars, fin, declared>>

\* a chunk that is neither the first nor the declared last: append it
ChunkAppend(u, i) ==
    /\ ChunkBranch(u, i) = "append"
    /\ LET key == safeUploadId(u)
           entry == uploadStreams[key]
       IN /\ tmpdir' = AppendBytes(tmpdir, entry.filePath, ChunkData(u, i, declared[u]))
          /\ uploadStreams' = Put(uploadStreams, key,
                                  [entry EXCEPT !.receivedChunks = @ \cup {i}])
          /\ uploadState' = setUploadState(uploadState,
                 [currentChunk |-> i + 1,
                  uploadProgress |-> RoundPercent(i + 1, declared[u])])
    /\ NoteRequest(u, i)
    /\ NoteReceived(u, i)
    /\ UNCHANGED <<staging, gridfs, nextId, uploads, uploadedVideos, abyss, drainVars, fin, declared>>

\* the declared last chunk: append it, drop the session, end the write stream
ChunkLast(u, i) ==
    /\ ChunkBranch(u, i) = "last"
    /\ \E f \in FinSlots \ DOMAIN fin :
         LET key == safeUploadId(u)
             entry == uploadStreams[key]
         IN /\ tmpdir' = AppendBytes(tmpdir, entry.filePath, ChunkData(u, i, declared[u]))
            /\ uploadStreams' = Drop(uploadStreams, key)
            /\ fin' = Put(fin, f,
                   [pc |-> "closing", uploadId |-> u, key |-> key,
                    totalChunks |-> declared[u], filePath |-> entry.filePath,
                    meta |-> entry.meta, receivedChunks |-> entry.receivedChunks \cup {i},
                    totalSize |-> 0, gridFsFileId |-> nullId])
    /\ NoteRequest(u, i)
    /\ NoteReceived(u, i)
    /\ UNCHANGED <<staging, gridfs, nextId, uploads, uploadedVideos, abyss, drainVars, uploadState,
                   declared>>

\* catch block of the handler: report, drop whatever session the key maps to now
ChunkCatch(f, us, msg) ==
    LET key == fin[f].key IN
    /\ uploadState' = setUploadState(us, [status |-> "error", error |-> msg])
    /\ uploadStreams' = Drop(uploadStreams, key)
    /\ tmpdir' = IF Has(uploadStreams, key) THEN Drop(tmpdir, uploadStreams[key].filePath)
                 ELSE tmpdir
    /\ fin' = Drop(fin, f)

\* 'finish' of the write stream, then fs.promises.stat; next the blob is streamed
FinCloseOk(f) ==
    /\ Has(fin, f) /\ fin[f].pc = "closing"
    /\ Has(tmpdir, fin[f].filePath)
    /\ LET totalSize == Len(tmpdir[fin[f].filePath])
           us == setUploadState(uploadState,
                     [status |-> "writing", currentChunk |-> fin[f].totalChunks,
                      uploadProgress |-> 100, dbProgress |-> 0])
       IN IF CreateRejects(fin[f].meta.mimetype, totalSize)
          THEN /\ ChunkCatch(f, us, "rejected")
               /\ UNCHANGED <<staging, gridfs, nextId>>
          ELSE /\ fin' = Put(fin, f, [fin[f] EXCEPT !.pc = "writing", !.totalSize = totalSize])
               /\ uploadState' = us
               /\ UNCHANGED <<uploadStreams, tmpdir, staging, gridfs, nextId>>
    /\ UNCHANGED <<uploads, uploadedVideos, abyss, drainVars, declared, requested, received, ordered>>

\* the write stream errors on close, or stat fails
FinCloseFail(f) ==
    /\ Has(fin, f) /\ fin[f].pc = "closing"
    /\ ChunkCatch(f, uploadState, "EIO")
    /\ UNCHANGED <<staging, gridfs, nextId, uploads, uploadedVideos, abyss, drainVars, declared,
                   requested, received, ordered>>

\* the GridFS upload stream finishes: the blob exists; StagingVideoModel.create is next
FinBlobOk(f) ==
    /\ Has(fin, f) /\ fin[f].pc = "writing"
    /\ Has(tmpdir, fin[f].filePath)
    /\ gridfs' = Put(gridfs, nextId, tmpdir[fin[f].filePath])
    /\ nextId' = nextId + 1
    /\ fin' = Put(fin, f, [fin[f] EXCEPT !.pc = "creating", !.gridFsFileId = nextId])
    /\ uploadState' = setUploadState(uploadState, [dbProgress |-> 100])
    /\ UNCHANGED <<staging, uploads, uploadedVideos, tmpdir, abyss, drainVars, uploadStreams, declared,
                   requested, received, ordered>>

\* the read stream or the GridFS upload stream errors
FinBlobFail(f) ==
    /\ Has(fin, f) /\ fin[f].pc = "writing"
    /\ ChunkCatch(f, uploadState, "EIO")
    /\ UNCHANGED <<staging, gridfs, nextId, uploads, uploadedVideos, abyss, drainVars, declared,
                   requested, received, ordered>>

\* the row is created pending; state done; the temp file is unlinked
FinRowOk(f) ==
    /\ Has(fin, f) /\ fin[f].pc = "creating"
    /\ staging' = Put(staging, nextId,
                      NewPendingRow(fin[f].gridFsFileId, fin[f].meta, fin[f].totalSize))
    /\ nextId' = nextId + 1
    /\ uploadState' = setUploadState(uploadState,
           [status |-> "done", dbProgress |-> 100, stagingId |-> nextId])
    /\ tmpdir' = Drop(tmpdir, fin[f].filePath)
    /\ fin' = Drop(fin, f)
    /\ UNCHANGED <<gridfs, uploads, uploadedVideos, abyss, drainVars, uploadStreams, declared,
                   requested, received, ordered>>

\* StagingVideoModel.create throws
FinRowFail(f) ==
    /\ Has(fin, f) /\ fin[f].pc = "creating"
    /\ ChunkCatch(f, uploadState, "EDB")
    /\ UNCHANGED <<staging, gridfs, nextId, uploads, uploadedVideos, abyss, drainVars, declared,
                   requested, received, ordered>>

\* the temp file was unlinked by a purge before stat or before the read stream
\* opens it: ENOENT, caught by the handler
FinFileGone(f) ==
    /\ Has(fin, f) /\ fin[f].pc \in {"closing", "writing"}
    /\ ~Has(tmpdir, fin[f].filePath)
    /\ ChunkCatch(f, uploadState, "ENOENT")
    /\ UNCHANGED <<staging, gridfs, nextId, uploads, uploadedVideos, abyss, drainVars, declared,
                   requested, received, ordered>>

ChunkIndexes == 0..(MaxChunks - 1)

\* ----------------------------------------- RunState (stagingProcessState.helper)
\* tryStartRun(pendingDocs) when it succeeds; now stands for new Date()
tryStartRun(st, pendingDocs, now) ==
    [isProcessing |-> TRUE, startedAt |-> now, total |-> Len(pendingDocs),
     processed |-> 0, failed |-> 0, currentStagingId |-> nullId,
     items |-> [k \in 1..Len(pendingDocs) |->
                  [stagingId |-> pendingDocs[k]._id, title |-> pendingDocs[k].title,
                   filename |-> pendingDocs[k].filename]]]

tryStartRunUnchecked(st) == FALSE

\* tryStartRun returns false: if (state.isProcessing) return false
tryStartRunRefused(st) == st.isProcessing

updateProgressKeepsCounters(st, processed, failed, currentStagingId) ==
    [st EXCEPT !.currentStagingId = currentStagingId]

\* updateProgress(processed, failed, currentStagingId)
updateProgress(st, processed, failed, currentStagingId) ==
    [st EXCEPT !.processed = processed, !.failed = failed,
               !.currentStagingId = currentStagingId]

endRunClearsCounters(st) ==
    [st EXCEPT !.isProcessing = FALSE, !.currentStagingId = nullId, !.total = 0,
               !.processed = 0, !.failed = 0, !.items = <<>>]

endRunKeepsFlag(st) == [st EXCEPT !.currentStagingId = nullId]

\* endRun()
endRun(st) == [st EXCEPT !.isProcessing = FALSE, !.currentStagingId = nullId]

getStateNoItems(st, us) ==
    [isProcessing |-> st.isProcessing, startedAt |-> st.startedAt, total |-> st.total,
     processed |-> st.processed, failed |-> st.failed,
     currentStagingId |-> st.currentStagingId, items |-> <<>>, upload |-> us]

\* getState()
getState(st, us) ==
    [isProcessing |-> st.isProcessing, startedAt |-> st.startedAt, total |-> st.total,
     processed |-> st.processed, failed |-> st.failed,
     currentStagingId |-> st.currentStagingId, items |-> st.items, upload |-> us]

\* ------------------------------------------------ abyss helper: checkUploadQuota
\* accountInfo after the field lookups of lines 181-187; maxUploads -1 stands for null
AccountInfos ==
    [storageUsed : {0, 3}, storageLimit : {0, 4}, dailyUsed : {0, 1}, dailyLimit : {0, 1},
     maxUploads : {-1, 0, 2}, uploadsCount : {0, 2}]

\* the same checks with the daily limit tested first
checkUploadQuotaDailyFirst(accountInfo, fileSizeBytes) ==
    IF accountInfo.dailyLimit > 0 /\ accountInfo.dailyUsed >= accountInfo.dailyLimit
    THEN [canUpload |-> FALSE, failStatus |-> "daily_fail"]
    ELSE IF accountInfo.storageLimit > 0
            /\ accountInfo.storageUsed + fileSizeBytes > accountInfo.storageLimit
    THEN [canUpload |-> FALSE, failStatus |-> "storage_fail"]
    ELSE IF accountInfo.maxUploads # -1 /\ accountInfo.uploadsCount >= accountInfo.maxUploads
    THEN [canUpload |-> FALSE, failStatus |-> "max_upload_fail"]
    ELSE [canUpload |-> TRUE, failStatus |-> null]

checkUploadQuota(accountInfo, fileSizeBytes) ==
    IF accountInfo.storageLimit > 0
       /\ accountInfo.storageUsed + fileSizeBytes > accountInfo.storageLimit
    THEN [canUpload |-> FALSE, failStatus |-> "storage_fail"]
    ELSE IF accountInfo.dailyLimit > 0 /\ accountInfo.dailyUsed >= accountInfo.dailyLimit
    THEN [canUpload |-> FALSE, failStatus |-> "daily_fail"]
    ELSE IF accountInfo.maxUploads # -1 /\ accountInfo.uploadsCount >= accountInfo.maxUploads
    THEN [canUpload |-> FALSE, failStatus |-> "max_upload_fail"]
    ELSE [canUpload |-> TRUE, failStatus |-> null]

\* -------------------------------------------- ledger helpers used by the drain
\* updateStaging(stagingId, update): findByIdAndUpdate; a missing row gives null
updateStaging(rows, stagingId, update) ==
    IF Has(rows, stagingId)
    THEN Put(rows, stagingId,
             [k \in DOMAIN rows[stagingId] |->
                IF k \in DOMAIN update THEN update[k] ELSE rows[stagingId][k]])
    ELSE rows

\* getStagingVideoStream(stagingId) returns a stream (not null)
StreamOpens(rows, files, stagingId) ==
    /\ Has(rows, stagingId)
    /\ rows[stagingId].gridFsFileId # nullId
    /\ Has(files, rows[stagingId].gridFsFileId)

\* the sort with the newest row first
RECURSIVE SortedIdsNewestFirst(_)
SortedIdsNewestFirst(S) ==
    IF S = {} THEN <<>>
    ELSE LET m == CHOOSE x \in S : \A y \in S : x >= y
         IN <<m>> \o SortedIdsNewestFirst(S \ {m})

\* StagingVideoModel.find({status: {$in: PROCESSABLE_STATUSES}}).sort({createdAt: 1}).limit(100).lean()
RECURSIVE SortedIds(_)
SortedIds(S) ==
    IF S = {} THEN <<>>
    ELSE LET m == CHOOSE x \in S : \A y \in S : x <= y
         IN <<m>> \o SortedIds(S \ {m})
LeanDoc(rows, id) ==
    [_id |-> id, tmdbId |-> rows[id].tmdbId, title |-> rows[id].title,
     poster_path |-> rows[id].poster_path, filename |-> rows[id].filename,
     size |-> rows[id].size]
\* the same query with no status filter
FindAll(rows) ==
    LET ids == SortedIds(DOMAIN rows)
        n == IF Len(ids) > BatchLimit THEN BatchLimit ELSE Len(ids)
    IN [k \in 1..n |-> LeanDoc(rows, ids[k])]
FindProcessable(rows) ==
    LET ids == SortedIds({id \in DOMAIN rows : rows[id].status \in PROCESSABLE_STATUSES})
        n == IF Len(ids) > BatchLimit THEN BatchLimit ELSE Len(ids)
    IN [k \in 1..n |-> LeanDoc(rows, ids[k])]

\* ------------------------------------------------------------ POST /process
NoData ==
    [processed |-> 0, failed |-> 0, quotaStopped |-> FALSE, total |-> 0,
     snapshot |-> getState(InitRunState, InitUploadState)]
IdleProc ==
    [pc |-> "idle", pending |-> <<>>, i |-> 0, processed |-> 0, failed |-> 0,
     quotaStopped |-> FALSE, failStatus |-> null, tmpPath |-> NoPath,
     streamFilename |-> <<>>, streamBytes |-> <<>>, slug |-> 0, slugStatus |-> null,
     err |-> null, names |-> {}, seen |-> {},
     mark |-> [uploads |-> 0, requested |-> [u \in UploadIds |-> {}]],
     resCode |-> 0, resData |-> NoData]

Doc(p) == proc[p].pending[proc[p].i]
StagingId(p) == Doc(p)._id
At(p, pc) == proc[p].pc = pc

\* data of the summary: { processed, failed, quotaStopped, total, ...getState() },
\* the fields of getState() overriding the locals of the same name
Summary(pr, st) ==
    [processed |-> getState(st, uploadState).processed,
     failed |-> getState(st, uploadState).failed,
     quotaStopped |-> pr.quotaStopped,
     total |-> getState(st, uploadState).total,
     snapshot |-> getState(st, uploadState)]

\* The handler leaves the loop: the summary is sent (when sending throws, the outer
\* catch answers 500 with getState()), then finally endRun().
Finish(pr, st, sendOk) ==
    [proc |-> [IdleProc EXCEPT
                 !.resCode = IF sendOk THEN 200 ELSE 500,
                 !.resData = IF sendOk THEN Summary(pr, st)
                             ELSE [NoData EXCEPT !.snapshot = getState(st, uploadState)]],
     state |-> endRun(st)]

\* Top of the for loop for candidate k: updateProgress(processed, failed, stagingId),
\* then await getAccountInfo(); past the last candidate the loop is left.
LoopTop(pr, st, k, sendOk) ==
    IF k > Len(pr.pending) THEN Finish(pr, st, sendOk)
    ELSE [proc |-> [pr EXCEPT !.pc = "quota", !.i = k, !.failStatus = null,
                              !.tmpPath = NoPath, !.streamFilename = <<>>,
                              !.streamBytes = <<>>, !.slug = 0, !.slugStatus = null,
                              !.err = null],
          state |-> updateProgress(st, pr.processed, pr.failed, pr.pending[k]._id)]

\* End of an iteration: updateProgress(processed, failed, null), next candidate.
NextIteration(pr, st, sendOk) ==
    LoopTop(pr, updateProgress(st, pr.processed, pr.failed, nullId), pr.i + 1, sendOk)

Become(p, r) ==
    /\ proc' = [proc EXCEPT ![p] = r.proc]
    /\ state' = r.state

\* an await inside the inner try throws: the catch block awaits updateStaging(error)
Throw(p, msg) ==
    /\ proc' = [proc EXCEPT ![p].pc = "catch", ![p].err = msg]
    /\ UNCHANGED state

\* the candidate query returns
Load(p) ==
    /\ At(p, "idle")
    /\ proc' = [proc EXCEPT ![p] = [IdleProc EXCEPT !.pc = "loaded",
                                                    !.pending = FindProcessable(staging)]]
    /\ UNCHANGED <<ledgerVars, uploadVars, state>>

\* the candidate query throws: 500
LoadThrows(p) ==
    /\ At(p, "idle")
    /\ proc' = [proc EXCEPT ![p] = [IdleProc EXCEPT !.resCode = 500]]
    /\ UNCHANGED <<ledgerVars, uploadVars, state>>

\* tryStartRun returns false: 409 with getState()
Conflict(p) ==
    /\ At(p, "loaded")
    /\ tryStartRunRefused(state)
    /\ proc' = [proc EXCEPT ![p] = [IdleProc EXCEPT
                    !.resCode = 409,
                    !.resData = [NoData EXCEPT !.snapshot = getState(state, uploadState)]]]
    /\ UNCHANGED <<ledgerVars, uploadVars, state>>

\* tryStartRun takes the lock and the loop starts
StartRun(p) ==
    /\ At(p, "loaded")
    /\ ~tryStartRunRefused(state)
    /\ state.startedAt < MaxRuns
    /\ uploads + state.startedAt < MaxWork
    /\ \E sendOk \in BOOLEAN :
         Become(p, LoopTop(proc[p], tryStartRun(state, proc[p].pending, state.startedAt + 1),
                           1, sendOk))
    /\ UNCHANGED <<ledgerVars, uploadVars>>

\* getAccountInfo returns; checkUploadQuota decides which updateStaging is awaited
GetAccountInfo(p) ==
    /\ At(p, "quota")
    /\ \E accountInfo \in AccountInfos :
         LET quota == checkUploadQuota(accountInfo, Doc(p).size) IN
         proc' = [proc EXCEPT ![p].pc = IF quota.canUpload THEN "setUploading" ELSE "quotaFail",
                              ![p].failStatus = quota.failStatus]
    /\ UNCHANGED <<ledgerVars, uploadVars, state>>

GetAccountInfoThrows(p) ==
    /\ At(p, "quota")
    /\ Throw(p, "Upload failed")
    /\ UNCHANGED <<ledgerVars, uploadVars>>

\* updateStaging(stagingId, {status: quota.failStatus}); quotaStopped = true; break
QuotaStop(p) ==
    /\ At(p, "quotaFail")
    /\ staging' = updateStaging(staging, StagingId(p), [status |-> proc[p].failStatus])
    /\ \E sendOk \in BOOLEAN :
         Become(p, Finish([proc[p] EXCEPT !.quotaStopped = TRUE], state, sendOk))
    /\ UNCHANGED <<gridfs, nextId, uploads, uploadedVideos, tmpdir, abyss, uploadVars>>

QuotaStopThrows(p) ==
    /\ At(p, "quotaFail")
    /\ Throw(p, "Upload failed")
    /\ UNCHANGED <<ledgerVars, uploadVars>>

\* updateStaging(stagingId, {status: 'uploading'}); getStagingVideoStream is awaited
SetUploading(p) ==
    /\ At(p, "setUploading")
    /\ staging' = updateStaging(staging, StagingId(p), [status |-> "uploading"])
    /\ proc' = [proc EXCEPT ![p].pc = "openStream"]
    /\ UNCHANGED <<gridfs, nextId, uploads, uploadedVideos, tmpdir, abyss, uploadVars, state>>

SetUploadingThrows(p) ==
    /\ At(p, "setUploading")
    /\ Throw(p, "Upload failed")
    /\ UNCHANGED <<ledgerVars, uploadVars>>

\* getStagingVideoStream returns a stream: the temp path is chosen, the pipeline awaited
OpenStream(p) ==
    /\ At(p, "openStream")
    /\ StreamOpens(staging, gridfs, StagingId(p))
    /\ LET row == staging[StagingId(p)] IN
       proc' = [proc EXCEPT
                  ![p].pc = "materialize",
                  ![p].streamFilename = row.filename,
                  ![p].streamBytes = gridfs[row.gridFsFileId],
                  ![p].tmpPath = <<"abyss-upload", StagingId(p), state.startedAt>>]
    /\ UNCHANGED <<ledgerVars, uploadVars, state>>

\* getStagingVideoStream returns null: updateStaging(error) is awaited
OpenStreamNull(p) ==
    /\ At(p, "openStream")
    /\ ~StreamOpens(staging, gridfs, StagingId(p))
    /\ proc' = [proc EXCEPT ![p].pc = "streamFail"]
    /\ UNCHANGED <<ledgerVars, uploadVars, state>>

OpenStreamThrows(p) ==
    /\ At(p, "openStream")
    /\ Throw(p, "Upload failed")
    /\ UNCHANGED <<ledgerVars, uploadVars>>

\* updateStaging(error, 'Could not open staging stream'); failed += 1; continue
StreamFail(p) ==
    /\ At(p, "streamFail")
    /\ staging' = updateStaging(staging, StagingId(p),
                     [status |-> "error", errorMessage |-> "Could not open staging stream"])
    /\ \E sendOk \in BOOLEAN :
         Become(p, NextIteration([proc[p] EXCEPT !.failed = @ + 1], state, sendOk))
    /\ UNCHANGED <<gridfs, nextId, uploads, uploadedVideos, tmpdir, abyss, uploadVars>>

StreamFailThrows(p) ==
    /\ At(p, "streamFail")
    /\ Throw(p, "Upload failed")
    /\ UNCHANGED <<ledgerVars, uploadVars>>

\* pipelineAsync(stream, createWriteStream(tmpPath)) completes; stat and upload follow
Materialize(p) ==
    /\ At(p, "materialize")
    /\ tmpdir' = Put(tmpdir, proc[p].tmpPath, proc[p].streamBytes)
    /\ proc' = [proc EXCEPT ![p].pc = "upload"]
    /\ UNCHANGED <<staging, gridfs, nextId, uploads, uploadedVideos, abyss, uploadVars, state>>

\* the pipeline rejects: the write stream may or may not have created the file
MaterializeThrows(p) ==
    /\ At(p, "materialize")
    /\ \E created \in BOOLEAN :
         tmpdir' = IF created THEN Put(tmpdir, proc[p].tmpPath, <<>>) ELSE tmpdir
    /\ Throw(p, "Upload failed")
    /\ UNCHANGED <<staging, gridfs, nextId, uploads, uploadedVideos, abyss, uploadVars>>

\* uploadVideoToAbyss returns {slug}; finally unlink(tmpPath); getSlugStatus is awaited
Upload(p) ==
    /\ At(p, "upload")
    /\ abyss' = Append(abyss, [stagingId |-> StagingId(p), filename |-> proc[p].streamFilename,
                               size |-> Len(proc[p].streamBytes)])
    /\ tmpdir' = Drop(tmpdir, proc[p].tmpPath)
    /\ proc' = [proc EXCEPT ![p].pc = "slugStatus", ![p].slug = Len(abyss) + 1]
    /\ UNCHANGED <<staging, gridfs, nextId, uploads, uploadedVideos, uploadVars, state>>

\* stat or uploadVideoToAbyss throws; finally unlink(tmpPath)
UploadThrows(p) ==
    /\ At(p, "upload")
    /\ tmpdir' = Drop(tmpdir, proc[p].tmpPath)
    /\ Throw(p, "Upload failed")
    /\ UNCHANGED <<staging, gridfs, nextId, uploads, uploadedVideos, abyss, uploadVars>>

\* getSlugStatus returns; UploadedVideoModel.create is awaited
GetSlugStatus(p) ==
    /\ At(p, "slugStatus")
    /\ \E s \in {"ready", "uploaded_not_ready"} :
         proc' = [proc EXCEPT ![p].pc = "createRecord", ![p].slugStatus = s]
    /\ UNCHANGED <<ledgerVars, uploadVars, state>>

GetSlugStatusThrows(p) ==
    /\ At(p, "slugStatus")
    /\ Throw(p, "Upload failed")
    /\ UNCHANGED <<ledgerVars, uploadVars>>

UploadedVideoDocAlwaysReady(doc, slug, slugStatus) ==
    [externalId |-> doc.tmdbId, title |-> doc.title, poster_path |-> doc.poster_path,
     abyssSlug |-> slug, slugStatus |-> "ready", filename |-> doc.filename,
     size |-> doc.size]

\* the record UploadedVideoModel.create receives
UploadedVideoDoc(doc, slug, slugStatus) ==
    [externalId |-> doc.tmdbId, title |-> doc.title, poster_path |-> doc.poster_path,
     abyssSlug |-> slug, slugStatus |-> slugStatus, filename |-> doc.filename,
     size |-> doc.size]

\* UploadedVideoModel.create resolves; updateStaging(status: slugStatus) is awaited
CreateRecord(p) ==
    /\ At(p, "createRecord")
    /\ uploadedVideos' =
         Append(uploadedVideos, UploadedVideoDoc(Doc(p), proc[p].slug, proc[p].slugStatus))
    /\ proc' = [proc EXCEPT ![p].pc = "mirror"]
    /\ UNCHANGED <<staging, gridfs, nextId, uploads, tmpdir, abyss, uploadVars, state>>

CreateRecordThrows(p) ==
    /\ At(p, "createRecord")
    /\ Throw(p, "Upload failed")
    /\ UNCHANGED <<ledgerVars, uploadVars>>

\* updateStaging(stagingId, {status: slugStatus, abyssSlug: slug}); deleteStaging is awaited
MirrorStatus(p) ==
    /\ At(p, "mirror")
    /\ staging' = updateStaging(staging, StagingId(p),
                     [status |-> proc[p].slugStatus, abyssSlug |-> proc[p].slug])
    /\ proc' = [proc EXCEPT ![p].pc = "delete"]
    /\ UNCHANGED <<gridfs, nextId, uploads, uploadedVideos, tmpdir, abyss, uploadVars, state>>

MirrorStatusThrows(p) ==
    /\ At(p, "mirror")
    /\ Throw(p, "Upload failed")
    /\ UNCHANGED <<ledgerVars, uploadVars>>

\* deleteStaging(stagingId): the blob (bucket.delete may fail, which is swallowed),
\* then the row
deleteStaging(rows, files, stagingId, blobDeleted) ==
    IF ~Has(rows, stagingId) THEN [rows |-> rows, files |-> files, found |-> FALSE]
    ELSE [rows |-> Drop(rows, stagingId),
          files |-> IF blobDeleted THEN Drop(files, rows[stagingId].gridFsFileId) ELSE files,
          found |-> TRUE]

\* deleteStaging resolves (blobDeleted: bucket.delete did not reject);
\* processed += 1; next candidate
DeleteStagingStep(p, blobDeleted) ==
    /\ At(p, "delete")
    /\ LET d == deleteStaging(staging, gridfs, StagingId(p), blobDeleted) IN
         /\ staging' = d.rows
         /\ gridfs' = d.files
    /\ \E sendOk \in BOOLEAN :
         Become(p, NextIteration([proc[p] EXCEPT !.processed = @ + 1], state, sendOk))
    /\ UNCHANGED <<nextId, uploads, uploadedVideos, tmpdir, abyss, uploadVars>>

DeleteStaging(p) == \E blobDeleted \in BOOLEAN : DeleteStagingStep(p, blobDeleted)

\* deleteStaging rejects: at getStagingById, or at deleteOne after the blob is gone
DeleteStagingThrows(p) ==
    /\ At(p, "delete")
    /\ \E blobDeleted \in BOOLEAN :
         gridfs' = IF blobDeleted /\ Has(staging, StagingId(p))
                   THEN Drop(gridfs, staging[StagingId(p)].gridFsFileId) ELSE gridfs
    /\ Throw(p, "Upload failed")
    /\ UNCHANGED <<staging, nextId, uploads, uploadedVideos, tmpdir, abyss, uploadVars>>

\* catch: updateStaging(error, err.message || String(err)).catch(() => {});
\* failed += 1; next candidate
Catch(p) ==
    /\ At(p, "catch")
    /\ \E written \in BOOLEAN :
         staging' = IF written
                    THEN updateStaging(staging, StagingId(p),
                                       [status |-> "error", errorMessage |-> proc[p].err])
                    ELSE staging
    /\ \E sendOk \in BOOLEAN :
         Become(p, NextIteration([proc[p] EXCEPT !.failed = @ + 1], state, sendOk))
    /\ UNCHANGED <<gridfs, nextId, uploads, uploadedVideos, tmpdir, abyss, uploadVars>>

\* ------------------------------------------------- GET /purge-all-uploads
\* temp files purge step 4 removes: staging-append-*, staging-reassembled-*
PurgeNames(dir) ==
    {path \in DOMAIN dir : path[1] \in {"staging-append", "staging-reassembled"}}

\* Steps 1 and 2: for (const [, entry] of uploadStreams) { destroy; await unlink },
\* one entry per step (the unlink takes effect when it is issued); past the last
\* entry uploadStreams.clear(), clearUploadState() and the find of step 3 is awaited.
PurgeSessions(g, pr) ==
    LET rest == DOMAIN uploadStreams \ pr.seen IN
    IF rest # {}
    THEN \E key \in rest :
           /\ tmpdir' = Drop(tmpdir, uploadStreams[key].filePath)
           /\ proc' = [proc EXCEPT ![g] = [pr EXCEPT !.pc = "sessions",
                                                     !.seen = pr.seen \cup {key}]]
           /\ UNCHANGED <<uploadStreams, uploadState>>
    ELSE /\ uploadStreams' = EmptyMap
         /\ uploadState' = clearUploadState
         /\ proc' = [proc EXCEPT ![g] = [pr EXCEPT !.pc = "query", !.seen = {}]]
         /\ UNCHANGED tmpdir

\* the request arrives (each request of Purgers is sent once)
PurgeStart(g) ==
    /\ At(g, "idle") /\ proc[g].resCode = 0
    /\ PurgeSessions(g, [IdleProc EXCEPT
                           !.mark = [uploads |-> uploads, requested |-> requested]])
    /\ UNCHANGED <<staging, gridfs, nextId, uploads, uploadedVideos, abyss, state, fin,
                   declared, requested, received, ordered>>

\* an unlink of step 1 has settled
PurgeNextSession(g) ==
    /\ At(g, "sessions")
    /\ PurgeSessions(g, proc[g])
    /\ UNCHANGED <<staging, gridfs, nextId, uploads, uploadedVideos, abyss, state, fin,
                   declared, requested, received, ordered>>

\* the response of the purge and the locals it leaves
PurgeDone(pr, code) ==
    [IdleProc EXCEPT !.mark = pr.mark, !.resCode = code,
                     !.resData = [NoData EXCEPT !.processed = pr.processed]]

\* Step 4 once the rows are done: readdir, then one unlink per matching name.
PurgeReaddir(pr, dir) ==
    IF PurgeNames(dir) = {} THEN PurgeDone(pr, 200)
    ELSE [pr EXCEPT !.pc = "unlinking", !.names = PurgeNames(dir)]

\* Step 3: StagingVideoModel.find({}).select('_id') returns
PurgeQuery(g) ==
    /\ At(g, "query")
    /\ LET ids == SortedIds(DOMAIN staging) IN
       proc' = [proc EXCEPT ![g] =
                  IF ids = <<>> THEN [proc[g] EXCEPT !.pc = "readdir"]
                  ELSE [proc[g] EXCEPT !.pc = "deleting", !.pending = ids, !.i = 1]]
    /\ UNCHANGED <<ledgerVars, uploadVars, state>>

\* Step 3: deleteStaging(doc._id) resolves; if (ok) deleted++
PurgeDeleteStep(g, blobDeleted) ==
    /\ At(g, "deleting")
    /\ LET d == deleteStaging(staging, gridfs, proc[g].pending[proc[g].i], blobDeleted)
           n == IF d.found THEN proc[g].processed + 1 ELSE proc[g].processed
       IN /\ staging' = d.rows
          /\ gridfs' = d.files
          /\ proc' = [proc EXCEPT ![g] =
                        IF proc[g].i < Len(proc[g].pending)
                        THEN [proc[g] EXCEPT !.i = @ + 1, !.processed = n]
                        ELSE [proc[g] EXCEPT !.pc = "readdir", !.processed = n]]
    /\ UNCHANGED <<nextId, uploads, uploadedVideos, tmpdir, abyss, uploadVars, state>>

PurgeDelete(g) == \E blobDeleted \in BOOLEAN : PurgeDeleteStep(g, blobDeleted)

\* the find or a deleteStaging of step 3 rejects: 500
PurgeThrows(g) ==
    /\ proc[g].pc \in {"query", "deleting"}
    /\ \E blobDeleted \in BOOLEAN :
         gridfs' = IF /\ blobDeleted /\ At(g, "deleting")
                      /\ Has(staging, proc[g].pending[proc[g].i])
                   THEN Drop(gridfs, staging[proc[g].pending[proc[g].i]].gridFsFileId)
                   ELSE gridfs
    /\ proc' = [proc EXCEPT ![g] = PurgeDone(proc[g], 500)]
    /\ UNCHANGED <<staging, nextId, uploads, uploadedVideos, tmpdir, abyss, uploadVars, state>>

\* Step 4: readdir returns the names of the temp dir
PurgeList(g) ==
    /\ At(g, "readdir")
    /\ proc' = [proc EXCEPT ![g] = PurgeReaddir(proc[g], tmpdir)]
    /\ UNCHANGED <<ledgerVars, uploadVars, state>>

\* Step 4: one unlink settles; after the last one the response is sent
PurgeUnlink(g) ==
    /\ At(g, "unlinking")
    /\ LET name == CHOOSE n \in proc[g].names : TRUE
           rest == proc[g].names \ {name}
       IN /\ tmpdir' = Drop(tmpdir, name)
          /\ proc' = [proc EXCEPT ![g] =
                        IF rest = {} THEN PurgeDone(proc[g], 200)
                        ELSE [proc[g] EXCEPT !.names = rest]]
    /\ UNCHANGED <<staging, gridfs, nextId, uploads, uploadedVideos, abyss, uploadVars, state>>

\* ------------------------------------------------ whole-file intake (POST /upload)
\* files an operator uploads in one request
IntakeFiles ==
    {[meta |-> [filename |-> <<"m", ".mp4">>, mimetype |-> "video/mp4", tmdbId |-> 21,
                title |-> "M", poster_path |-> "/m.jpg"],
      bytes |-> <<"m">>],
     [meta |-> [filename |-> <<"n", ".webm">>, mimetype |-> "video/webm", tmdbId |-> nullId,
                title |-> "", poster_path |-> null],
      bytes |-> <<"n", "n">>]}

\* createStagingVideoWithProgress completes: blob written, row created pending
UploadWholeFile(file) ==
    /\ uploads < MaxUploads
    /\ uploads + state.startedAt < MaxWork
    /\ ~CreateRejects(file.meta.mimetype, Len(file.bytes))
    /\ uploads' = uploads + 1
    /\ gridfs' = Put(gridfs, nextId, file.bytes)
    /\ staging' = Put(staging, nextId + 1, NewPendingRow(nextId, file.meta, Len(file.bytes)))
    /\ nextId' = nextId + 2
    /\ UNCHANGED <<uploadedVideos, tmpdir, abyss, uploadVars, drainVars>>

\* ------------------- POST /upload-chunk of staging.route.js (chunk directory)
\* Files of the chunk directory of upload u: name i >= 0 is chunk i, -1 is
\* meta.json, -2 is the lock .reassembling, -3 stands for the directory itself.
DirPath(u, name) == <<"staging-chunks", safeUploadId(u), name>>
DirEntries(dir, u) ==
    {path \in DOMAIN dir : path[1] = "staging-chunks" /\ path[2] = safeUploadId(u)
                           /\ path[3] # -3}

\* meta.json as chunk 0 writes it
DirMeta(u) == [totalChunks |-> declared[u]] @@ ChunkMeta(u)

\* the upload the chunk requests belong to
DirUpload == CHOOSE u \in UploadIds : declared[u] > 0

\* the request has answered with code; its locals are kept for the check
DirAnswer(pr, code) == [IdleProc EXCEPT !.resCode = code, !.i = pr.i, !.slug = pr.slug]

\* mkdir, writeFile(chunkPath) and for chunk 0 writeFile(metaPath) have resolved
DirWrite(c, i) ==
    /\ At(c, "idle") /\ proc[c].resCode = 0
    /\ i < declared[DirUpload]
    /\ LET u == DirUpload
           d1 == Put(Put(tmpdir, DirPath(u, -3), <<>>), DirPath(u, i),
                     ChunkData(u, i, declared[u]))
       IN tmpdir' = IF i = 0
                    THEN Put(d1, DirPath(u, -1), DirMeta(u))
                    ELSE d1
    /\ proc' = [proc EXCEPT ![c] = [IdleProc EXCEPT !.pc = "check", !.i = i]]
    /\ UNCHANGED <<staging, gridfs, nextId, uploads, uploadedVideos, abyss, uploadVars, state>>

\* checkAllPresent: meta.json is readable and chunks 0..totalChunks-1 exist
checkAllPresent(dir, u) ==
    /\ Has(dir, DirPath(u, -1))
    /\ \A i \in 0..(dir[DirPath(u, -1)].totalChunks - 1) : Has(dir, DirPath(u, i))

\* checkAllPresent has returned: on to the lock, or 200 for a chunk that is not
\* the last; the last chunk polls again
DirCheck(c) ==
    /\ At(c, "check")
    /\ \/ checkAllPresent(tmpdir, DirUpload)
       \/ proc[c].i # declared[DirUpload] - 1
    /\ proc' = [proc EXCEPT ![c] =
                  IF checkAllPresent(tmpdir, DirUpload) THEN [proc[c] EXCEPT !.pc = "lock"]
                  ELSE DirAnswer(proc[c], 200)]
    /\ UNCHANGED <<ledgerVars, uploadVars, state>>

\* the last chunk has polled until the deadline without seeing all chunks: 400
DirTimeout(c) ==
    /\ At(c, "check")
    /\ ~checkAllPresent(tmpdir, DirUpload)
    /\ proc[c].i = declared[DirUpload] - 1
    /\ proc' = [proc EXCEPT ![c] = DirAnswer(proc[c], 400)]
    /\ UNCHANGED <<ledgerVars, uploadVars, state>>

\* writeFile(lockPath, '1', { flag: 'wx' }): EEXIST answers 200, a missing
\* directory throws (400, headers not sent, no cleanup), otherwise the lock is
\* taken and the reassembly loop starts
DirLock(c) ==
    /\ At(c, "lock")
    /\ LET u == DirUpload IN
       IF Has(tmpdir, DirPath(u, -2))
       THEN /\ proc' = [proc EXCEPT ![c] = DirAnswer(proc[c], 200)]
            /\ UNCHANGED <<tmpdir, uploads>>
       ELSE IF ~Has(tmpdir, DirPath(u, -3))
       THEN /\ proc' = [proc EXCEPT ![c] = DirAnswer(proc[c], 400)]
            /\ UNCHANGED <<tmpdir, uploads>>
       ELSE /\ uploads < MaxUploads
            /\ uploads' = uploads + 1
            /\ tmpdir' = Put(tmpdir, DirPath(u, -2), <<>>)
            /\ proc' = [proc EXCEPT ![c].pc = "reassemble", ![c].processed = 0,
                                    ![c].streamBytes = <<>>,
                                    ![c].tmpPath = <<"staging-reassembled", u, uploads + 1>>]
    /\ UNCHANGED <<staging, gridfs, nextId, uploadedVideos, abyss, uploadVars, state>>

\* one turn of the loop: readFile(chunk i), appendFile(reassembledPath); a
\* missing chunk throws (400, headers not sent, no cleanup)
DirRead(c) ==
    /\ At(c, "reassemble")
    /\ LET u == DirUpload
           k == proc[c].processed
       IN IF ~Has(tmpdir, DirPath(u, k))
          THEN /\ proc' = [proc EXCEPT ![c] = DirAnswer(proc[c], 400)]
               /\ UNCHANGED tmpdir
          ELSE /\ tmpdir' = Put(tmpdir, proc[c].tmpPath,
                                 proc[c].streamBytes \o tmpdir[DirPath(u, k)])
               /\ proc' = [proc EXCEPT
                             ![c].streamBytes = @ \o tmpdir[DirPath(u, k)],
                             ![c].processed = k + 1,
                             ![c].pc = IF k + 1 = declared[u] THEN "create" ELSE "reassemble"]
    /\ UNCHANGED <<staging, gridfs, nextId, uploads, uploadedVideos, abyss, uploadVars, state>>

\* createStagingVideoWithProgress resolves (meta is the one checkAllPresent
\* parsed): 201 'done'; cleanup(uploadId, reassembledPath) is started and not
\* awaited
DirCreate(c) ==
    /\ At(c, "create")
    /\ LET meta == DirMeta(DirUpload) IN
       /\ ~CreateRejects(meta.mimetype, Len(proc[c].streamBytes))
       /\ gridfs' = Put(gridfs, nextId, proc[c].streamBytes)
       /\ staging' = Put(staging, nextId + 1,
                         NewPendingRow(nextId, meta, Len(proc[c].streamBytes)))
    /\ nextId' = nextId + 2
    /\ proc' = [proc EXCEPT ![c].pc = "cleanup", ![c].resCode = 201, ![c].slug = nextId + 1]
    /\ UNCHANGED <<uploads, uploadedVideos, tmpdir, abyss, uploadVars, state>>

\* createStagingVideoWithProgress rejects before any progress line was written:
\* 400 and no cleanup; after one was written: error line and cleanup(uploadId)
DirCreateFails(c) ==
    /\ At(c, "create")
    /\ \E headersSent \in BOOLEAN :
         proc' = [proc EXCEPT ![c] =
                    IF headersSent
                    THEN [proc[c] EXCEPT !.pc = "cleanup", !.resCode = 400, !.tmpPath = NoPath]
                    ELSE DirAnswer(proc[c], 400)]
    /\ UNCHANGED <<ledgerVars, uploadVars, state>>

\* cleanup: readdir(dir) returns the entries to unlink
DirCleanupList(c) ==
    /\ At(c, "cleanup")
    /\ proc' = [proc EXCEPT ![c].pc = "unlinking", ![c].names = DirEntries(tmpdir, DirUpload)]
    /\ UNCHANGED <<ledgerVars, uploadVars, state>>

\* cleanup: one unlink has settled (readdir fixes no order); after the last one
\* rmdir, which fails on a directory that is not empty, and the unlink of the
\* reassembled file
DirCleanupUnlink(c) ==
    /\ At(c, "unlinking")
    /\ IF proc[c].names # {}
       THEN \E path \in proc[c].names :
              /\ tmpdir' = Drop(tmpdir, path)
              /\ proc' = [proc EXCEPT ![c].names = @ \ {path}]
       ELSE /\ tmpdir' = Drop(IF DirEntries(tmpdir, DirUpload) = {}
                              THEN Drop(tmpdir, DirPath(DirUpload, -3)) ELSE tmpdir,
                              proc[c].tmpPath)
            /\ proc' = [proc EXCEPT ![c] = DirAnswer(proc[c], proc[c].resCode)]
    /\ UNCHANGED <<staging, gridfs, nextId, uploads, uploadedVideos, abyss, uploadVars, state>>

\* ------------------------------- createStagingVideoFromStream (size unknown)
\* arguments of a create call: the metadata and what the read stream delivers
CreateInputs ==
    {[meta |-> [filename |-> <<"v", ".mp4">>, mimetype |-> "video/mp4", tmdbId |-> 31,
                title |-> "V", poster_path |-> null],
      bytes |-> <<"v", "v">>],
     [meta |-> [filename |-> <<"p", ".pdf">>, mimetype |-> "application/pdf",
                tmdbId |-> nullId, title |-> "", poster_path |-> null],
      bytes |-> <<"p">>],
     [meta |-> [filename |-> <<"w", ".webm">>, mimetype |-> "video/webm", tmdbId |-> 32,
                title |-> "W", poster_path |-> null],
      bytes |-> [k \in 1..(MAX_SIZE_BYTES + 1) |-> "w"]]}

\* The row StagingVideoModel.create receives from createStagingVideoFromStream.
NewWritingRow(gridFsFileId, meta) ==
    [NewPendingRow(gridFsFileId, meta, 0) EXCEPT !.status = "writing"]

\* the call has settled: returned (code 201) or thrown err (code 400)
CreateSettled(code, err) == [IdleProc EXCEPT !.resCode = code, !.err = err]

\* mimetype outside the allow-list: throws before anything is opened
StreamCreateRejects(c, file) ==
    /\ At(c, "idle") /\ proc[c].resCode = 0
    /\ file.meta.mimetype \notin ALLOWED_TYPES
    /\ proc' = [proc EXCEPT ![c] = CreateSettled(400, "Unsupported video type")]
    /\ UNCHANGED <<ledgerVars, uploadVars, state>>

\* openUploadStream, then StagingVideoModel.create of the 'writing' row resolves
StreamCreateRow(c, file) ==
    /\ At(c, "idle") /\ proc[c].resCode = 0
    /\ file.meta.mimetype \in ALLOWED_TYPES
    /\ uploads < MaxUploads
    /\ uploads' = uploads + 1
    /\ staging' = Put(staging, nextId + 1, NewWritingRow(nextId, file.meta))
    /\ nextId' = nextId + 2
    /\ proc' = [proc EXCEPT ![c] =
                  [IdleProc EXCEPT !.pc = "streaming",
                                   !.pending = <<LeanDoc(staging', nextId + 1)>>, !.i = 1,
                                   !.slug = nextId, !.streamBytes = file.bytes]]
    /\ UNCHANGED <<gridfs, uploadedVideos, tmpdir, abyss, uploadVars, state>>

\* StagingVideoModel.create rejects
StreamCreateRowThrows(c, file) ==
    /\ At(c, "idle") /\ proc[c].resCode = 0
    /\ file.meta.mimetype \in ALLOWED_TYPES
    /\ proc' = [proc EXCEPT ![c] = CreateSettled(400, "Upload failed")]
    /\ UNCHANGED <<ledgerVars, uploadVars, state>>

\* the upload stream finishes: the blob exists; size = written is then compared
\* with MAX_SIZE_BYTES and the next await is bucket.delete or the final updateOne
StreamFinish(c) ==
    /\ At(c, "streaming")
    /\ gridfs' = Put(gridfs, proc[c].slug, proc[c].streamBytes)
    /\ proc' = [proc EXCEPT ![c].pc = IF Len(proc[c].streamBytes) > MAX_SIZE_BYTES
                                      THEN "tooLarge" ELSE "setPending"]
    /\ UNCHANGED <<staging, nextId, uploads, uploadedVideos, tmpdir, abyss, uploadVars, state>>

\* the read or the upload stream errors; bucket.delete(...).catch has settled
StreamError(c) ==
    /\ At(c, "streaming")
    /\ proc' = [proc EXCEPT ![c].pc = "markError", ![c].err = "Upload failed"]
    /\ UNCHANGED <<ledgerVars, uploadVars, state>>

\* size > MAX_SIZE_BYTES: bucket.delete resolves
TooLargeDelete(c) ==
    /\ At(c, "tooLarge")
    /\ gridfs' = Drop(gridfs, proc[c].slug)
    /\ proc' = [proc EXCEPT ![c].pc = "markError", ![c].err = "Video too large"]
    /\ UNCHANGED <<staging, nextId, uploads, uploadedVideos, tmpdir, abyss, uploadVars, state>>

\* size > MAX_SIZE_BYTES: bucket.delete rejects, which leaves the function
TooLargeDeleteThrows(c) ==
    /\ At(c, "tooLarge")
    /\ proc' = [proc EXCEPT ![c] = CreateSettled(400, "Upload failed")]
    /\ UNCHANGED <<ledgerVars, uploadVars, state>>

\* updateOne(status: 'error', errorMessage) resolves, then the error is thrown
StreamMarkError(c) ==
    /\ At(c, "markError")
    /\ staging' = updateStaging(staging, StagingId(c),
                                [status |-> "error", errorMessage |-> proc[c].err])
    /\ proc' = [proc EXCEPT ![c] = CreateSettled(400, proc[c].err)]
    /\ UNCHANGED <<gridfs, nextId, uploads, uploadedVideos, tmpdir, abyss, uploadVars, state>>

\* updateOne(status: 'error') rejects
StreamMarkErrorThrows(c) ==
    /\ At(c, "markError")
    /\ proc' = [proc EXCEPT ![c] = CreateSettled(400, "Upload failed")]
    /\ UNCHANGED <<ledgerVars, uploadVars, state>>

\* updateOne(size, status: 'pending') resolves: the call returns
StreamSetPending(c) ==
    /\ At(c, "setPending")
    /\ staging' = updateStaging(staging, StagingId(c),
                                [size |-> Len(proc[c].streamBytes), status |-> "pending"])
    /\ proc' = [proc EXCEPT ![c] = CreateSettled(201, null)]
    /\ UNCHANGED <<gridfs, nextId, uploads, uploadedVideos, tmpdir, abyss, uploadVars, state>>

\* updateOne(size, status: 'pending') rejects
StreamSetPendingThrows(c) ==
    /\ At(c, "setPending")
    /\ proc' = [proc EXCEPT ![c] = CreateSettled(400, "Upload failed")]
    /\ UNCHANGED <<ledgerVars, uploadVars, state>>

\* createStagingVideoWithProgress called with a mimetype outside the allow-list or
\* a size above the maximum: throws before anything is opened
KnownCreateRejects(c, file) ==
    /\ At(c, "idle") /\ proc[c].resCode = 0
    /\ CreateRejects(file.meta.mimetype, Len(file.bytes))
    /\ proc' = [proc EXCEPT ![c] =
                  CreateSettled(400, IF file.meta.mimetype \notin ALLOWED_TYPES
                                     THEN "Unsupported video type" ELSE "Video too large")]
    /\ UNCHANGED <<ledgerVars, uploadVars, state>>

\* ------------------------------------------------------------------ GET /
\* listStaging({status, statuses, limit, skip}): newest first, skip, limit; total
\* counts every match.  "no filter" is null / the empty sequence.
RECURSIVE NewestFirst(_)
NewestFirst(S) ==
    IF S = {} THEN <<>>
    ELSE LET m == CHOOSE x \in S : \A y \in S : x >= y
         IN <<m>> \o NewestFirst(S \ {m})
Matches(rows, status, statuses) ==
    {id \in DOMAIN rows :
        IF Len(statuses) > 0 THEN \E k \in 1..Len(statuses) : rows[id].status = statuses[k]
        ELSE IF status # null THEN rows[id].status = status
        ELSE TRUE}
listStaging(rows, status, statuses, limit, skip) ==
    LET ids == NewestFirst(Matches(rows, status, statuses))
        last == IF skip + limit < Len(ids) THEN skip + limit ELSE Len(ids)
    IN [list |-> [k \in 1..(IF last > skip THEN last - skip ELSE 0) |->
                    [_id |-> ids[skip + k], status |-> rows[ids[skip + k]].status]],
        total |-> Len(ids)]

STATUS_ENUM ==
    {"pending", "uploading", "storage_fail", "daily_fail", "max_upload_fail",
     "uploaded_not_ready", "ready", "error"}

\* req.query of GET /: status, statuses (comma separated, here a sequence),
\* limit and skip after parseInt ("" is an absent parameter, 0 an absent number)
ListQueries ==
    [status : {"", "pending", "writing"},
     statuses : {<<>>, <<"pending", "error">>, <<"writing", "uploading">>, <<"writing">>},
     limit : {0, 1}, skip : {0, 1}]

RECURSIVE KnownStatuses(_)
\* statusesParam.split(',').filter((s) => STATUS_ENUM.includes(s))
KnownStatuses(seq) ==
    IF seq = <<>> THEN <<>>
    ELSE (IF seq[1] \in STATUS_ENUM THEN <<seq[1]>> ELSE <<>>) \o KnownStatuses(Tail(seq))

\* the filters and the page the route hands to listStaging
ListArgs(q) ==
    LET arr == KnownStatuses(q.statuses) IN
    [statuses |-> IF q.statuses # <<>> THEN arr ELSE <<>>,
     status |-> IF q.statuses = <<>> /\ q.status # "" /\ q.status \in STATUS_ENUM
                THEN q.status ELSE null,
     limit |-> IF q.limit = 0 THEN 20 ELSE IF q.limit > 100 THEN 100 ELSE q.limit,
     skip |-> IF q.skip < 0 THEN 0 ELSE q.skip]

\* the list request is answered: 200 with the page and the total
List(l, q) ==
    /\ At(l, "idle")
    /\ LET a == ListArgs(q)
           r == listStaging(staging, a.status, a.statuses, a.limit, a.skip)
       IN proc' = [proc EXCEPT ![l] = [IdleProc EXCEPT
                                         !.pending = r.list, !.resCode = 200,
                                         !.resData = [NoData EXCEPT !.total = r.total]]]
    /\ UNCHANGED <<ledgerVars, uploadVars, state>>

\* ------------------------------------------------------------ specification
InitStore ==
    /\ staging = EmptyMap
    /\ gridfs = EmptyMap
    /\ nextId = 1
    /\ uploads = 0
    /\ uploadedVideos = <<>>
    /\ tmpdir = EmptyMap
    /\ abyss = <<>>
    /\ state = InitRunState
    /\ uploadState = InitUploadState
    /\ uploadStreams = EmptyMap
    /\ fin = EmptyMap
    /\ proc = [p \in Procs \cup Purgers \cup Creators \cup Listers \cup Chunkers
                  |-> IdleProc]
    /\ requested = [u \in UploadIds |-> {}]
    /\ received = [u \in UploadIds |-> {}]
    /\ ordered = [u \in UploadIds |-> TRUE]

\* one client uploads one file: one uploadId is in use, with any totalChunks
OneUpload ==
    {d \in [UploadIds -> 0..MaxChunks] : Cardinality({u \in UploadIds : d[u] > 0}) = 1}
UploadInit == InitStore /\ declared \in OneUpload

\* the chunk handler without I/O faults
NextUploadOk ==
    \/ \E u \in UploadIds, i \in ChunkIndexes : ChunkInvalid(u, i)
    \/ \E u \in UploadIds, i \in ChunkIndexes : ChunkIdempotent(u, i)
    \/ \E u \in UploadIds, i \in ChunkIndexes : ChunkNoSession(u, i)
    \/ \E u \in UploadIds : ChunkCreate(u)
    \/ \E u \in UploadIds, i \in ChunkIndexes : ChunkAppend(u, i)
    \/ \E u \in UploadIds, i \in ChunkIndexes : ChunkLast(u, i)
    \/ \E f \in FinSlots : FinCloseOk(f)
    \/ \E f \in FinSlots : FinBlobOk(f)
    \/ \E f \in FinSlots : FinRowOk(f)

NextUploadFault ==
    \/ \E f \in FinSlots : FinCloseFail(f)
    \/ \E f \in FinSlots : FinBlobFail(f)
    \/ \E f \in FinSlots : FinRowFail(f)

NextUpload == NextUploadOk \/ NextUploadFault

UploadOkSpec == UploadInit /\ [][NextUploadOk]_vars
UploadSpec == UploadInit /\ [][NextUpload]_vars

\* the purge races uploads of up to three chunks
PurgeInit == InitStore /\ declared \in {d \in OneUpload : \A u \in UploadIds : d[u] <= 3}

NextPurge ==
    \/ NextUploadOk
    \/ \E f \in FinSlots : FinFileGone(f)
    \/ \E g \in Purgers : PurgeStart(g)
    \/ \E g \in Purgers : PurgeNextSession(g)
    \/ \E g \in Purgers : PurgeQuery(g)
    \/ \E g \in Purgers : PurgeDelete(g)
    \/ \E g \in Purgers : PurgeThrows(g)
    \/ \E g \in Purgers : PurgeList(g)
    \/ \E g \in Purgers : PurgeUnlink(g)

PurgeSpec == PurgeInit /\ [][NextPurge]_vars

DrainInit == InitStore /\ declared = [u \in UploadIds |-> 0]

NextDrain ==
    \/ \E file \in IntakeFiles : UploadWholeFile(file)
    \/ \E p \in Procs : Load(p)
    \/ \E p \in Procs : LoadThrows(p)
    \/ \E p \in Procs : Conflict(p)
    \/ \E p \in Procs : StartRun(p)
    \/ \E p \in Procs : GetAccountInfo(p)
    \/ \E p \in Procs : GetAccountInfoThrows(p)
    \/ \E p \in Procs : QuotaStop(p)
    \/ \E p \in Procs : QuotaStopThrows(p)
    \/ \E p \in Procs : SetUploading(p)
    \/ \E p \in Procs : SetUploadingThrows(p)
    \/ \E p \in Procs : OpenStream(p)
    \/ \E p \in Procs : OpenStreamNull(p)
    \/ \E p \in Procs : OpenStreamThrows(p)
    \/ \E p \in Procs : StreamFail(p)
    \/ \E p \in Procs : StreamFailThrows(p)
    \/ \E p \in Procs : Materialize(p)
    \/ \E p \in Procs : MaterializeThrows(p)
    \/ \E p \in Procs : Upload(p)
    \/ \E p \in Procs : UploadThrows(p)
    \/ \E p \in Procs : GetSlugStatus(p)
    \/ \E p \in Procs : GetSlugStatusThrows(p)
    \/ \E p \in Procs : CreateRecord(p)
    \/ \E p \in Procs : CreateRecordThrows(p)
    \/ \E p \in Procs : MirrorStatus(p)
    \/ \E p \in Procs : MirrorStatusThrows(p)
    \/ \E p \in Procs : DeleteStaging(p)
    \/ \E p \in Procs : DeleteStagingThrows(p)
    \/ \E p \in Procs : Catch(p)

DrainSpec == DrainInit /\ [][NextDrain]_vars

\* two clients upload at the same time: two uploadIds are in use, with their
\* totalChunks up to three
TwoUploads ==
    {d \in [UploadIds -> 0..3] : Cardinality({u \in UploadIds : d[u] > 0}) = 2}
PairInit == InitStore /\ declared \in TwoUploads
PairSpec == PairInit /\ [][NextUploadOk]_vars

\* the chunk-directory handler: the requests of one upload
NextDir ==
    \/ \E c \in Chunkers, i \in ChunkIndexes : DirWrite(c, i)
    \/ \E c \in Chunkers : DirCheck(c)
    \/ \E c \in Chunkers : DirTimeout(c)
    \/ \E c \in Chunkers : DirLock(c)
    \/ \E c \in Chunkers : DirRead(c)
    \/ \E c \in Chunkers : DirCreate(c)
    \/ \E c \in Chunkers : DirCreateFails(c)
    \/ \E c \in Chunkers : DirCleanupList(c)
    \/ \E c \in Chunkers : DirCleanupUnlink(c)

DirSpec == UploadInit /\ [][NextDir]_vars

\* the create helpers called directly, the whole-file intake and the list route
LedgerInit == InitStore /\ declared = [u \in UploadIds |-> 0]

NextLedger ==
    \/ \E c \in Creators, file \in CreateInputs : StreamCreateRejects(c, file)
    \/ \E c \in Creators, file \in CreateInputs : StreamCreateRow(c, file)
    \/ \E c \in Creators, file \in CreateInputs : StreamCreateRowThrows(c, file)
    \/ \E c \in Creators, file \in CreateInputs : KnownCreateRejects(c, file)
    \/ \E c \in Creators : StreamFinish(c)
    \/ \E c \in Creators : StreamError(c)
    \/ \E c \in Creators : TooLargeDelete(c)
    \/ \E c \in Creators : TooLargeDeleteThrows(c)
    \/ \E c \in Creators : StreamMarkError(c)
    \/ \E c \in Creators : StreamMarkErrorThrows(c)
    \/ \E c \in Creators : StreamSetPending(c)
    \/ \E c \in Creators : StreamSetPendingThrows(c)
    \/ \E file \in IntakeFiles : UploadWholeFile(file)
    \/ \E l \in Listers, q \in ListQueries : List(l, q)

LedgerSpec == LedgerInit /\ [][NextLedger]_vars

\* const quota = checkUploadQuota(accountInfo, doc.size), called on its own with
\* the arguments and the result kept in the caller's locals
QuotaCheck(p, accountInfo, size) ==
    /\ At(p, "idle") /\ proc[p].resCode = 0
    /\ LET quota == checkUploadQuota(accountInfo, size) IN
       proc' = [proc EXCEPT ![p] =
                  [IdleProc EXCEPT !.names = {accountInfo}, !.i = size,
                                   !.quotaStopped = ~quota.canUpload,
                                   !.failStatus = quota.failStatus, !.resCode = 200]]
    /\ UNCHANGED <<ledgerVars, uploadVars, state>>

QuotaSpec ==
    LedgerInit /\ [][\E p \in Procs, accountInfo \in AccountInfos, size \in 1..2 :
                       QuotaCheck(p, accountInfo, size)]_vars

\* the drain next to one size-unknown create call, whose row starts as 'writing'
NextStreamIntake ==
    \/ \E file \in CreateInputs : StreamCreateRow("s1", file)
    \/ StreamFinish("s1")
    \/ TooLargeDelete("s1")
    \/ StreamMarkError("s1")
    \/ StreamSetPending("s1")

NextQueue == NextDrain \/ NextStreamIntake

QueueSpec == DrainInit /\ [][NextQueue]_vars

\* the steps of one POST /process request after its candidate query returned
Handler(p) ==
    \/ Conflict(p) \/ StartRun(p)
    \/ GetAccountInfo(p) \/ GetAccountInfoThrows(p)
    \/ QuotaStop(p) \/ QuotaStopThrows(p)
    \/ SetUploading(p) \/ SetUploadingThrows(p)
    \/ OpenStream(p) \/ OpenStreamNull(p) \/ OpenStreamThrows(p)
    \/ StreamFail(p) \/ StreamFailThrows(p)
    \/ Materialize(p) \/ MaterializeThrows(p)
    \/ Upload(p) \/ UploadThrows(p)
    \/ GetSlugStatus(p) \/ GetSlugStatusThrows(p)
    \/ CreateRecord(p) \/ CreateRecordThrows(p)
    \/ MirrorStatus(p) \/ MirrorStatusThrows(p)
    \/ DeleteStaging(p) \/ DeleteStagingThrows(p)
    \/ Catch(p)

\* Every awaited call returns or throws, and the event loop then resumes the request.
DrainFairSpec == DrainSpec /\ \A p \in Procs : WF_vars(Handler(p))

\* ================================================================== claims
\* a request that holds the lock: between tryStartRun and endRun
InRun(p) == proc[p].pc \notin {"idle", "loaded"}
Runners == {p \in Procs : InRun(p)}

\* C1: at most one drain run is active at any time; a request that reaches
\* tryStartRun while isProcessing is true is answered 409 and starts no run.
C1_AtMostOneRun == Cardinality(Runners) <= 1 /\ (state.isProcessing <=> Runners # {})
C1_ConflictStep ==
    \A p \in Procs :
        (At(p, "loaded") /\ state.isProcessing /\ proc'[p] # proc[p])
        => (proc'[p].pc = "idle" /\ proc'[p].resCode = 409 /\ state' = state)
C1_SingleRun == [](C1_AtMostOneRun) /\ [][C1_ConflictStep]_vars
C1_Witness ==
    \E p, q \in Procs :
        InRun(p) /\ proc[q].pc = "idle" /\ proc[q].resCode = 409 /\ state.startedAt = 1

\* C2: every started run releases the lock, whichever way the run is left, and
\* isProcessing goes true -> false exactly once per run: at the step that leaves it.
C2_ReleaseStep ==
    /\ \A p \in Procs : (InRun(p) /\ ~InRun(p)') => (state.isProcessing /\ ~state'.isProcessing)
    /\ (state.isProcessing /\ ~state'.isProcessing)
       => Cardinality({p \in Procs : InRun(p) /\ ~InRun(p)'}) = 1
C2_LockReleased ==
    /\ [][C2_ReleaseStep]_vars
    /\ \A p \in Procs : InRun(p) ~> ~state.isProcessing
C2_Witness ==
    \E p \in Procs :
        /\ proc[p].pc = "idle" /\ proc[p].resCode = 500
        /\ proc[p].resData.snapshot.total = 2 /\ proc[p].resData.snapshot.failed = 1
        /\ ~state.isProcessing /\ state.startedAt = 1

\* C3: resending an already received (uploadId, chunkIndex) is a no-op success,
\* for every index and at any time after the first receipt.
C3_ResendIsNoOp ==
    \A u \in UploadIds : \A i \in received[u] : ChunkBranch(u, i) = "idempotent"

\* C4: when all N indexes were received, the artifact handed to the ledger is the
\* chunks in index order 0..N-1 (so its length is the sum of the chunk lengths).
C4_IndexOrder ==
    \A f \in DOMAIN fin :
        (fin[f].pc = "creating" /\ fin[f].receivedChunks = 0..(fin[f].totalChunks - 1))
        => gridfs[fin[f].gridFsFileId] = InOrderBytes(fin[f].uploadId, fin[f].totalChunks)

\* C5: for every N >= 1, once chunks 0..N-1 were each sent once in increasing
\* order, the last request finalizes: one pending StagingItem of the summed size,
\* no session and no temp artifact left.
C5_InOrderFinalizes ==
    \A u \in UploadIds :
        (declared[u] >= 1 /\ ordered[u] /\ requested[u] = 0..(declared[u] - 1))
        => \/ \E f \in DOMAIN fin : fin[f].uploadId = u
           \/ /\ Cardinality(DOMAIN staging) = 1
              /\ \A id \in DOMAIN staging :
                    /\ staging[id].status = "pending"
                    /\ staging[id].size = Len(InOrderBytes(u, declared[u]))
              /\ ~Has(uploadStreams, safeUploadId(u))
              /\ \A path \in DOMAIN tmpdir : path[2] # u

\* C6: nothing is handed to the ledger by a last-chunk request while an earlier
\* index of the session is missing.
C6_NoGapHandedOver ==
    \A f \in DOMAIN fin :
        fin[f].pc = "creating" => fin[f].receivedChunks = 0..(fin[f].totalChunks - 1)

\* C7: after a publish attempt for an item, its abyss-upload temp file is gone:
\* such a file exists only while the request is between materializing and uploading.
C7_TmpRemoved ==
    \A path \in DOMAIN tmpdir :
        \E p \in Procs : proc[p].pc = "upload" /\ proc[p].tmpPath = path

\* C8: quota exhaustion for a candidate gives it the matching fail status and stops
\* the loop: summary quotaStopped, no counter incremented, later candidates untouched.
C8_QuotaStopStep ==
    \A p \in Procs :
        (At(p, "quotaFail") /\ proc'[p] # proc[p])
        => /\ proc'[p].pc = "idle"
           /\ proc'[p].resCode = 200 => proc'[p].resData.quotaStopped
           /\ state'.processed = proc[p].processed
           /\ state'.failed = proc[p].failed
           /\ Has(staging, StagingId(p)) => staging'[StagingId(p)].status = proc[p].failStatus
           /\ \A id \in DOMAIN staging : id # StagingId(p) => staging'[id] = staging[id]
C8_QuotaStops == [][C8_QuotaStopStep]_vars

\* C9: a failure while publishing an item sets its status to error with a
\* non-empty errorMessage, adds one to failed, and the run goes on to the next candidate.
C9_FailureStep ==
    \A p \in Procs :
        (proc[p].pc \in {"catch", "streamFail"} /\ proc'[p] # proc[p] /\ proc'[p].pc # "catch")
        => /\ Has(staging, StagingId(p))
              => /\ staging'[StagingId(p)].status = "error"
                 /\ staging'[StagingId(p)].errorMessage \notin {null, ""}
           /\ state'.failed = proc[p].failed + 1
           /\ state'.processed = proc[p].processed
           /\ IF proc[p].i < Len(proc[p].pending)
              THEN proc'[p].pc = "quota" /\ proc'[p].i = proc[p].i + 1
              ELSE proc'[p].pc = "idle" /\ ~proc'[p].resData.quotaStopped
C9_FailureIsRecorded == [][C9_FailureStep]_vars

\* C10: after the upload returned a slug and the later steps succeeded, exactly one
\* UploadedVideo carries the row's catalog id, title, poster path, filename, size,
\* the slug and the readiness the host returned; then row and blob are deleted and
\* processed grows by one.
C10_OneRecord ==
    \A p \in Procs :
        proc[p].pc \in {"mirror", "delete"}
        => /\ Has(staging, StagingId(p))
           /\ \E k \in 1..Len(uploadedVideos) :
                /\ uploadedVideos[k] =
                     [externalId |-> staging[StagingId(p)].tmdbId,
                      title |-> staging[StagingId(p)].title,
                      poster_path |-> staging[StagingId(p)].poster_path,
                      abyssSlug |-> proc[p].slug, slugStatus |-> proc[p].slugStatus,
                      filename |-> staging[StagingId(p)].filename,
                      size |-> staging[StagingId(p)].size]
                /\ \A j \in 1..Len(uploadedVideos) :
                     uploadedVideos[j].abyssSlug = proc[p].slug => j = k
C10_DeleteStep ==
    \A p \in Procs :
        DeleteStagingStep(p, TRUE)
        => /\ ~Has(staging', StagingId(p))
           /\ ~Has(gridfs', staging[StagingId(p)].gridFsFileId)
           /\ uploadedVideos' = uploadedVideos
           /\ state'.processed = proc[p].processed + 1
           /\ state'.failed = proc[p].failed
           /\ proc'[p].resCode = 200 => proc'[p].resData.processed = proc[p].processed + 1
C10_Published == [](C10_OneRecord) /\ [][C10_DeleteStep]_vars
C10_Witness ==
    \E p \in Procs : \E k \in 1..Len(uploadedVideos) :
        /\ proc[p].pc = "idle" /\ proc[p].resCode = 200 /\ proc[p].resData.processed = 1
        /\ uploadedVideos[k].slugStatus = "uploaded_not_ready"
        /\ uploadedVideos[k].title = "M"
        /\ DOMAIN staging = {} /\ DOMAIN gridfs = {} /\ uploads = 1

\* C11: a drain trigger answered 409 changes nothing: no row changes, RunState is
\* left as it was with the lock still held, and the response carries the current
\* RunState snapshot.
C11_ConflictStep ==
    \A p \in Procs :
        (At(p, "loaded") /\ state.isProcessing /\ proc'[p] # proc[p])
        => /\ proc'[p].resCode = 409
           /\ staging' = staging /\ gridfs' = gridfs /\ uploadedVideos' = uploadedVideos
           /\ state' = state /\ state'.isProcessing
           /\ \A q \in Procs \ {p} : proc'[q] = proc[q]
           /\ LET snap == proc'[p].resData.snapshot IN
              /\ snap.isProcessing
              /\ snap.startedAt = state.startedAt /\ snap.total = state.total
              /\ snap.processed = state.processed /\ snap.failed = state.failed
              /\ snap.currentStagingId = state.currentStagingId
              /\ snap.items = state.items
C11_ConflictChangesNothing == [][C11_ConflictStep]_vars
C11_Witness ==
    \E p, q \in Procs :
        /\ proc[p].pc = "idle" /\ proc[p].resCode = 409
        /\ Len(proc[p].resData.snapshot.items) = 2
        /\ proc[p].resData.snapshot.currentStagingId # nullId
        /\ InRun(q) /\ state.isProcessing /\ proc[q].i = 2

\* C12: a deleteStaging call that resolves leaves neither the row nor its blob; on
\* an id whose row is already gone it is a no-op that reports nothing found.
C12_DeleteCall ==
    \A g \in Purgers :
        (At(g, "deleting") /\ proc'[g] # proc[g] /\ proc'[g].resCode # 500)
        => LET id == proc[g].pending[proc[g].i] IN
           IF Has(staging, id)
           THEN /\ ~Has(staging', id)
                /\ ~Has(gridfs', staging[id].gridFsFileId)
           ELSE /\ staging' = staging /\ gridfs' = gridfs
                /\ proc'[g].processed = proc[g].processed
C12_DeleteLeavesNothing == [][C12_DeleteCall]_vars

\* C15 as stated: every status change is writing -> pending, pending -> uploading,
\* uploading -> a quota-fail status or error, a quota-fail status or error ->
\* uploading, and only an uploading row is deleted.
C15_QuotaFails == {"storage_fail", "daily_fail", "max_upload_fail"}
C15_SpecEdges ==
    ({"writing"} \X {"pending"}) \cup ({"pending"} \X {"uploading"})
    \cup ({"uploading"} \X (C15_QuotaFails \cup {"error"}))
    \cup ((C15_QuotaFails \cup {"error"}) \X {"uploading"})
C15_SpecStep ==
    \A id \in DOMAIN staging :
        IF Has(staging', id)
        THEN staging'[id].status # staging[id].status
             => <<staging[id].status, staging'[id].status>> \in C15_SpecEdges
        ELSE staging[id].status = "uploading"
C15_Processable == {"pending", "error"} \cup C15_QuotaFails
C15_Published == {"ready", "uploaded_not_ready"}
C15_CodeEdges ==
    ({"writing"} \X {"pending", "error"})
    \cup ((C15_Processable \cup {"uploading"} \cup C15_Published)
          \X ({"uploading", "error"} \cup C15_QuotaFails))
    \cup ({"uploading"} \X C15_Published)
C15_CodeStep ==
    /\ \A id \in DOMAIN staging :
          IF Has(staging', id)
          THEN staging'[id].status # staging[id].status
               => <<staging[id].status, staging'[id].status>> \in C15_CodeEdges
          ELSE staging[id].status \in C15_Published
    /\ \A id \in DOMAIN staging' \ DOMAIN staging :
          staging'[id].status \in {"writing", "pending"}
C16_PurgeResets ==
    \A g \in Purgers :
        (/\ proc[g].pc = "idle" /\ proc[g].resCode = 200
         /\ fin = EmptyMap
         /\ proc[g].mark = [uploads |-> uploads, requested |-> requested])
        => /\ uploadStreams = EmptyMap
           /\ PurgeNames(tmpdir) = {}
           /\ DOMAIN staging = {} /\ DOMAIN gridfs = {}
           /\ uploadState = clearUploadState

\* C13: every candidate a drain request loads has, at the time of the query, one
\* of the statuses pending, storage_fail, daily_fail, max_upload_fail, error; a
\* row that is writing or uploading (an item a lost run left behind included) is
\* not among the candidates.
C13_QueryStep ==
    \A p \in Procs :
        (At(p, "idle") /\ proc'[p].pc = "loaded")
        => \A k \in 1..Len(proc'[p].pending) :
              LET id == proc'[p].pending[k]._id IN
              /\ Has(staging, id)
              /\ staging[id].status \in
                    {"pending", "storage_fail", "daily_fail", "max_upload_fail", "error"}
              /\ staging[id].status \notin {"writing", "uploading"}
C13_OnlyProcessable == [][C13_QueryStep]_vars
C13_Witness ==
    \E p \in Procs :
        /\ At(p, "loaded") /\ ~state.isProcessing
        /\ \E a, b \in DOMAIN staging :
              /\ staging[a].status = "uploading" /\ staging[b].status = "writing"
              /\ \A k \in 1..Len(proc[p].pending) : proc[p].pending[k]._id \notin {a, b}

\* C14: no answer of the list route contains an item whose status is writing,
\* whatever the filter (one status, a status set, none).
C14_NoWritingListed ==
    \A l \in Listers :
        proc[l].resCode = 200
        => \A k \in 1..Len(proc[l].pending) : proc[l].pending[k].status # "writing"

\* C17: when a chunk request fails with an I/O error (the catch block runs and
\* reports the error), afterwards the uploadId has no session and its temp file
\* is gone.
C17_CatchStep ==
    \A f \in DOMAIN fin :
        (f \notin DOMAIN fin' /\ uploadState'.status = "error")
        => /\ ~Has(uploadStreams', fin[f].key)
           /\ ~Has(tmpdir', fin[f].filePath)
C17_ErrorCleansUp == [][C17_CatchStep]_vars

\* C18: a create call rejected for its mimetype or its size leaves no row and no
\* blob behind, for the size-known and for the size-unknown variant.
C18_RejectedCall(c) ==
    /\ proc'[c] # proc[c] /\ proc'[c].pc = "idle"
    /\ proc'[c].err \in {"Unsupported video type", "Video too large"}
C18_RejectStep ==
    \A c \in Creators :
        C18_RejectedCall(c)
        => /\ \/ proc[c].pc = "idle"
              \/ /\ ~Has(staging', StagingId(c))
                 /\ ~Has(gridfs', proc[c].slug)
           /\ proc[c].pc = "idle" => staging' = staging /\ gridfs' = gridfs
C18_RejectedNeverStored == [][C18_RejectStep]_vars
\* C19: the state snapshot in the summary of a run is taken after the run was
\* released: it shows isProcessing = false and currentStagingId = null.
C19_SummaryAfterRelease ==
    \A p \in Procs :
        (proc[p].pc = "idle" /\ proc[p].resCode = 200)
        => /\ ~proc[p].resData.snapshot.isProcessing
           /\ proc[p].resData.snapshot.currentStagingId = nullId
\* C20: within a run the candidates are taken one after another, oldest first and
\* at most BatchLimit of them: the quota check of candidate i+1 is entered only
\* from the outcome of candidate i (row deleted, failure recorded, stream missing),
\* the first one only from the start of the run, and the snapshot does not change
\* during the run.
C20_Outcomes == {"delete", "catch", "streamFail"}
C20_Step ==
    \A p \in Procs :
        /\ (proc'[p] # proc[p] /\ proc'[p].pc = "quota")
           => \/ At(p, "loaded") /\ proc'[p].i = 1
              \/ /\ proc[p].pc \in C20_Outcomes
                 /\ proc'[p].i = proc[p].i + 1
        /\ (InRun(p) /\ proc'[p].pc # "idle")
           => /\ proc'[p].pending = proc[p].pending
              /\ proc'[p].pc # "quota" => proc'[p].i = proc[p].i
        /\ proc'[p].pc = "loaded"
           => /\ Len(proc'[p].pending) <= BatchLimit
              /\ \A k, l \in 1..Len(proc'[p].pending) :
                    k < l => proc'[p].pending[k]._id < proc'[p].pending[l]._id
        /\ (InRun(p) /\ state'.currentStagingId # nullId /\ proc'[p].pc # "idle")
           => state'.currentStagingId = proc'[p].pending[proc'[p].i]._id
C20_Sequential == [][C20_Step]_vars
C20_Witness ==
    \E p \in Procs :
        /\ At(p, "setUploading") /\ proc[p].i = 2 /\ Len(proc[p].pending) = 2
        /\ proc[p].processed = 1
        /\ ~Has(staging, proc[p].pending[1]._id)
        /\ Has(staging, proc[p].pending[2]._id)
        /\ staging[proc[p].pending[2]._id].status = "pending"
\* C21: at any time an uploadId has at most one session and at most one temp
\* file, and every chunk-0 request after the first one is an idempotent success:
\* no second session is ever opened for the uploadId.
C21_TempFiles(u) == {path \in DOMAIN tmpdir : path[1] = "staging-append" /\ path[2] = u}
C21_OneSession ==
    \A u \in UploadIds :
        /\ Cardinality(C21_TempFiles(u)) <= 1
        /\ Cardinality({f \in DOMAIN fin : fin[f].uploadId = u}) <= 1
        /\ Has(uploadStreams, safeUploadId(u))
           => \A f \in DOMAIN fin : fin[f].key # safeUploadId(u)
\* C22: a chunk request for uploadId A changes nothing of the session of another
\* uploadId B: B's received indexes, metadata and temp file stay as they were.
C22_SessionOf(streams, u) ==
    IF Has(streams, safeUploadId(u)) /\ streams[safeUploadId(u)].filePath[2] = u
    THEN streams[safeUploadId(u)] ELSE <<>>
C22_FilesOf(dir, u) ==
    [path \in {q \in DOMAIN dir : q[1] = "staging-append" /\ q[2] = u} |-> dir[path]]
C22_ChunkStep ==
    \A a, b \in UploadIds :
        (a # b /\ requested'[a] # requested[a])
        => /\ C22_SessionOf(uploadStreams', b) = C22_SessionOf(uploadStreams, b)
           /\ C22_FilesOf(tmpdir', b) = C22_FilesOf(tmpdir, b)
C22_Independent == [][C22_ChunkStep]_vars
\* C23: the end of a run changes only isProcessing and currentStagingId (after
\* the last updateProgress of the loop); total, startedAt and the item snapshot
\* stay as they are, and while no run is active RunState does not change until
\* the next successful tryStartRun, which sets total to the number of candidates,
\* processed and failed to 0 and replaces the snapshot; a refused tryStartRun
\* changes nothing.
C23_Step ==
    /\ (~state.isProcessing /\ state'.startedAt = state.startedAt) => state' = state
    /\ (state.isProcessing /\ ~state'.isProcessing)
       => /\ state'.total = state.total /\ state'.startedAt = state.startedAt
          /\ state'.items = state.items /\ state'.currentStagingId = nullId
          /\ state'.processed \in {state.processed, state.processed + 1}
          /\ state'.failed \in {state.failed, state.failed + 1}
    /\ state'.startedAt # state.startedAt
       => /\ ~state.isProcessing
          /\ state'.processed = 0 /\ state'.failed = 0
          /\ \E p \in Procs :
                /\ At(p, "loaded")
                /\ state'.total = Len(proc[p].pending)
                /\ Len(state'.items) = Len(proc[p].pending)
                /\ \A k \in 1..Len(proc[p].pending) :
                      state'.items[k].stagingId = proc[p].pending[k]._id
    /\ \A p \in Procs :
          (At(p, "loaded") /\ state.isProcessing /\ proc'[p] # proc[p]) => state' = state
C23_EndRunKeepsCounters == [][C23_Step]_vars
C23_Witness ==
    /\ ~state.isProcessing /\ state.currentStagingId = nullId
    /\ state.startedAt = 1 /\ state.total = 2 /\ Len(state.items) = 2
    /\ state.processed = 1 /\ state.failed = 1
    /\ \E p \in Procs : At(p, "loaded")
\* C24 as stated: checkUploadQuota returns exactly one outcome, the first that
\* applies of storage_fail, daily_fail, max_upload_fail, else canUpload; and a
\* limit that is 0 or absent never blocks.
C24_Checked(p) == proc[p].resCode = 200 /\ proc[p].names # {}
C24_Info(p) == CHOOSE a \in proc[p].names : TRUE
C24_StorageFull(p) ==
    C24_Info(p).storageLimit > 0
    /\ C24_Info(p).storageUsed + proc[p].i > C24_Info(p).storageLimit
C24_DailyFull(p) ==
    C24_Info(p).dailyLimit > 0 /\ C24_Info(p).dailyUsed >= C24_Info(p).dailyLimit
C24_ZeroNeverBlocks ==
    \A p \in Procs :
        C24_Checked(p)
        => /\ C24_Info(p).storageLimit = 0 => proc[p].failStatus # "storage_fail"
           /\ C24_Info(p).dailyLimit = 0 => proc[p].failStatus # "daily_fail"
           /\ C24_Info(p).maxUploads \in {-1, 0} => proc[p].failStatus # "max_upload_fail"

\* C24 amended: the outcome is the first that applies of storage_fail (positive
\* storage limit exceeded by used + size), daily_fail (positive daily limit
\* reached), max_upload_fail (maxUploads present, 0 included, and uploadsCount >=
\* maxUploads), else canUpload; canUpload is false exactly when a fail status is
\* returned; a storage or daily limit of 0 and an absent maxUploads never block,
\* while maxUploads = 0 blocks every upload.
C24_Expected(p) ==
    IF C24_StorageFull(p) THEN "storage_fail"
    ELSE IF C24_DailyFull(p) THEN "daily_fail"
    ELSE IF C24_Info(p).maxUploads >= 0 /\ C24_Info(p).uploadsCount >= C24_Info(p).maxUploads
    THEN "max_upload_fail"
    ELSE null
C24_QuotaOutcome ==
    \A p \in Procs :
        C24_Checked(p)
        => /\ proc[p].failStatus = C24_Expected(p)
           /\ proc[p].quotaStopped <=> proc[p].failStatus # null
           /\ C24_Info(p).storageLimit = 0 => proc[p].failStatus # "storage_fail"
           /\ C24_Info(p).dailyLimit = 0 => proc[p].failStatus # "daily_fail"
           /\ C24_Info(p).maxUploads = -1 => proc[p].failStatus # "max_upload_fail"
           /\ (C24_Info(p).maxUploads = 0 /\ ~C24_StorageFull(p) /\ ~C24_DailyFull(p))
              => proc[p].failStatus = "max_upload_fail"
C24_Witness ==
    \E p \in Procs :
        /\ C24_Checked(p) /\ C24_StorageFull(p) /\ C24_DailyFull(p)
        /\ C24_Info(p).maxUploads = 0
        /\ proc[p].failStatus = "storage_fail" /\ proc[p].quotaStopped
\* C25: across all runs an item is published at most once: the host accepts at
\* most one upload of it and at most one published record is created for it.
C25_PublishedOnce ==
    /\ \A j, k \in 1..Len(abyss) : abyss[j].stagingId = abyss[k].stagingId => j = k
    /\ \A j, k \in 1..Len(uploadedVideos) :
          abyss[uploadedVideos[j].abyssSlug].stagingId
            = abyss[uploadedVideos[k].abyssSlug].stagingId => j = k
\* C26: whenever an item has status uploading, a run is active and
\* RunState.currentStagingId is that item.
C26_UploadingIsCurrent ==
    \A id \in DOMAIN staging :
        staging[id].status = "uploading"
        => state.isProcessing /\ state.currentStagingId = id
\* C27: every row whose status is processable references a blob that exists.
C27_ProcessableHasBlob ==
    \A id \in DOMAIN staging :
        staging[id].status \in PROCESSABLE_STATUSES
        => Has(gridfs, staging[id].gridFsFileId)
\* C28: in every RunState processed + failed <= total; during a run neither
\* counter decreases and together they grow by one exactly when the loop moves
\* on from a candidate; a run that ends without a quota stop ends with
\* processed + failed = total.
C28_Bounded == state.processed + state.failed <= state.total
C28_Step ==
    /\ (state.isProcessing /\ state'.startedAt = state.startedAt)
       => /\ state'.processed >= state.processed /\ state'.failed >= state.failed
          /\ state'.processed + state'.failed <= state.processed + state.failed + 1
          /\ state'.total = state.total
    /\ \A p \in Procs :
          (InRun(p) /\ proc'[p].pc # "idle" /\ proc'[p].i # proc[p].i)
          => state'.processed + state'.failed = state.processed + state.failed + 1
    /\ \A p \in Procs :
          (InRun(p) /\ proc'[p].pc = "idle")
          => /\ ~state'.isProcessing
             /\ ~At(p, "quotaFail") => state'.processed + state'.failed = state'.total
             /\ At(p, "quotaFail")
                => state'.processed + state'.failed = state.processed + state.failed
C28_CountersAddUp == [](C28_Bounded) /\ [][C28_Step]_vars
C28_Witness ==
    \E p \in Procs :
        /\ At(p, "quota") /\ proc[p].i = 2
        /\ state.isProcessing /\ state.total = 2
        /\ state.processed = 0 /\ state.failed = 1
\* C29: whenever UploadState names uploadId U, its fields are those of upload U:
\* file name, totalChunks and chunk counter of U, and in phase done the id of
\* the StagingItem created from U's chunks.
C29_Coherent ==
    \A u \in UploadIds :
        uploadState.uploadId = u
        => /\ uploadState.fileName = ChunkMeta(u).filename
           /\ uploadState.totalChunks = declared[u]
           /\ uploadState.currentChunk <= declared[u]
           /\ uploadState.status = "done"
              => /\ Has(staging, uploadState.stagingId)
                 /\ staging[uploadState.stagingId].filename = ChunkMeta(u).filename
                 /\ staging[uploadState.stagingId].size = Len(InOrderBytes(u, declared[u]))
\* C30: the requests of one upload create at most one StagingItem between them,
\* and the item holds the chunks in index order.
C30_OneItem ==
    /\ Cardinality(DOMAIN staging) <= 1
    /\ \A c \in Chunkers :
          (proc[c].resCode = 201 /\ Has(staging, proc[c].slug))
          => gridfs[staging[proc[c].slug].gridFsFileId]
               = InOrderBytes(DirUpload, declared[DirUpload])
====
